---- MODULE Spec2Model ----
(***************************************************************************)
(* Model of i18n/generate.py: merging the per-locale .po catalogs with the *)
(* external msgcat tool, cleaning the merged catalog, renaming it to the   *)
(* target and compiling all catalogs once at the end of Generate.run.      *)
(*                                                                         *)
(* Spec      : one run of Generate.run over a small configuration and      *)
(*             file system, one action per step of merge/run.              *)
(* SpecClean : clean_pofile applied to every catalog of a bounded family.  *)
(***************************************************************************)
EXTENDS Integers, Sequences, FiniteSets, TLC

VARIABLES
    args,       \* parsed command line: [strict, ltr, rtl]
    cfg,        \* config.CONFIGURATION: locale lists and generate_merge
    fs,         \* the locale message directories: fs[locale][file]
    fs0,        \* the file system when the run started
    pc,         \* position of the run
    phase,      \* "langs": loop of line 133, "dummy": loop of line 136
    langs,      \* the locale list selected at lines 126-131
    i,          \* index of the current locale in the current list
    g,          \* index of the current merge group in generate_merge
    seen,       \* the locale directory as the last msgcat run found it
    executed,   \* external commands run through execute(), in order
    returned,   \* number of merge() calls that returned normally
    visited,    \* merge_files() calls made so far: <<locale, fail_if_missing>>
    skipped,    \* merge() calls that returned silently: <<locale, target>>, in order
    failure,    \* what raised the exception that ended the run
    po,         \* SpecClean: the catalog handed to clean_pofile
    cleaned     \* SpecClean: the catalog clean_pofile saved

vars == <<args, cfg, fs, fs0, pc, phase, langs, i, g, seen, executed,
          returned, visited, skipped, failure, po, cleaned>>

runvars == <<args, cfg, fs, fs0, phase, langs, i, g, seen, executed,
             returned, visited, skipped, failure>>

----------------------------------------------------------------------------
(* Catalogs.  A flag is the sequence of its characters, so that           *)
(* str.endswith is computed and not assumed.  An occurrence is            *)
(* <<filename, line>> with line <<>> for None and <<n>> for a number.      *)

MaxEntries == 2

NoLine == <<>>

FUZZY == <<"f","u","z","z","y">>
C_FORMAT == <<"c","-","f","o","r","m","a","t">>
NO_C_FORMAT == <<"n","o","-","c","-","f","o","r","m","a","t">>
C_FORMATS == <<"c","-","f","o","r","m","a","t","s">>
FORMAT == <<"f","o","r","m","a","t">>

FormatSuffix == <<"-","f","o","r","m","a","t">>

OccurrenceLists ==
    { <<>>,
      << <<"views.py", <<42>> >> >>,
      << <<"views.py", NoLine>> >>,
      << <<"views.py", <<42>> >>, <<"models.py", <<7>> >> >>,
      << <<"models.py", NoLine>>, <<"views.py", <<42>> >> >> }

FlagLists ==
    { <<>>,
      <<C_FORMAT>>,
      <<FUZZY, NO_C_FORMAT>>,
      <<C_FORMAT, FUZZY, C_FORMATS>>,
      <<FORMAT, C_FORMAT>> }

Entries ==
    [msgid : {"Hello"}, msgstr : {"Bonjour"},
     occurrences : OccurrenceLists, flags : FlagLists]

SeqsUpTo(S, n) == UNION { [1..k -> S] : k \in 0..n }

Catalog(fuzzy, entries) ==
    [kind |-> "catalog", fuzzy |-> fuzzy, entries |-> entries]

Catalogs ==
    { Catalog(f, es) : f \in BOOLEAN, es \in SeqsUpTo(Entries, MaxEntries) }

Absent == [kind |-> "absent", fuzzy |-> FALSE, entries |-> <<>>]

\* a file a failed tool left half written
Partial == [kind |-> "partial", fuzzy |-> FALSE, entries |-> <<>>]

\* f.endswith(suffix)
endswith(f, suffix) ==
    /\ Len(f) >= Len(suffix)
    /\ SubSeq(f, Len(f) - Len(suffix) + 1, Len(f)) = suffix

\* lines 94 and 96: the body of the loop over the entries
clean_entry(entry) ==
    [entry EXCEPT
        !.occurrences = [k \in 1..Len(@) |-> <<@[k][1], NoLine>>],
        !.flags = SelectSeq(@, LAMBDA f : ~endswith(f, FormatSuffix))]

\* a plausible slip: only the first occurrence loses its line number
clean_entry_first(entry) ==
    [entry EXCEPT
        !.occurrences = [k \in 1..Len(@) |->
            IF k = 1 THEN <<@[k][1], NoLine>> ELSE @[k]],
        !.flags = SelectSeq(@, LAMBDA f : ~endswith(f, FormatSuffix))]

clean_pofile_first(pomsgs) ==
    [pomsgs EXCEPT
        !.fuzzy = FALSE,
        !.entries = [k \in 1..Len(@) |-> clean_entry_first(@[k])]]

\* lines 89-97: what pomsgs.save() writes for the catalog that was read
clean_pofile(pomsgs) ==
    [pomsgs EXCEPT
        !.fuzzy = FALSE,
        !.entries = [k \in 1..Len(@) |-> clean_entry(@[k])]]

----------------------------------------------------------------------------
(* The configuration and the file system of a run.                         *)

MaxMissing == 2

Locales == {"ar", "eo", "fr"}

MERGED == "merged.po"

BASE_DIR == "BASE_DIR"

Files ==
    {"django-partial.po", "mako.po", "django.po",
     "djangojs-partial.po", "djangojs.po", MERGED}

Group(target, sources) == [target |-> target, sources |-> sources]

\* generate_merge of config.yaml; the second target is one of its sources
GroupsDefault ==
    << Group("django.po", <<"django-partial.po", "mako.po">>),
       Group("djangojs.po", <<"djangojs-partial.po", "djangojs.po">>) >>

\* a generate_merge whose first target is the name merge() uses for its
\* temporary file
GroupsTemp ==
    << Group(MERGED, <<"django-partial.po", "mako.po">>),
       Group("djangojs.po", <<"djangojs-partial.po", "djangojs.po">>) >>

Configuration(translated, ltr, rtl, dummy, groups) ==
    [translated_locales |-> translated, ltr_langs |-> ltr, rtl_langs |-> rtl,
     dummy_locales |-> dummy, generate_merge |-> groups]

\* config.CONFIGURATION: the dummy locale apart from the translated ones,
\* the dummy locale also a translated one, and the temporary name as target
Configurations ==
    { Configuration(<<"ar", "fr">>, <<"fr">>, <<"ar">>, <<"eo">>, GroupsDefault),
      Configuration(<<"ar", "eo", "fr">>, <<"eo", "fr">>, <<"ar">>, <<"eo">>,
                    GroupsDefault),
      Configuration(<<"ar", "fr">>, <<"fr">>, <<"ar">>, <<"eo">>, GroupsTemp) }

Range(s) == { s[k] : k \in DOMAIN s }

SourceFiles(c) ==
    UNION { Range(c.generate_merge[k].sources) : k \in DOMAIN c.generate_merge }

\* the catalog an extraction step left in file f
Orig(f) ==
    Catalog(FALSE,
            << [msgid |-> f, msgstr |-> "Bonjour",
                occurrences |-> << <<"views.py", <<42>> >> >>,
                flags |-> <<C_FORMAT, FUZZY>>] >>)

\* The directories before the run: every source is there but the missing
\* ones; the files of an earlier run (targets, merged.po) are there if stale.
InitialFs(c, missing, stale) ==
    [l \in Locales |-> [f \in Files |->
        IF f \in SourceFiles(c)
        THEN IF <<l, f>> \in missing THEN Absent ELSE Orig(f)
        ELSE IF stale THEN Orig(f) ELSE Absent]]

----------------------------------------------------------------------------
(* The external tools, as execute() runs them.                             *)

\* union of the entries: an entry whose msgid is already there replaces
\* the translation of the earlier one
AddEntry(acc, e) ==
    IF \E k \in 1..Len(acc) : acc[k].msgid = e.msgid
    THEN [k \in 1..Len(acc) |->
             IF acc[k].msgid = e.msgid
             THEN [acc[k] EXCEPT !.msgstr = e.msgstr] ELSE acc[k]]
    ELSE Append(acc, e)

RECURSIVE AddEntries(_, _)
AddEntries(acc, es) ==
    IF es = <<>> THEN acc ELSE AddEntries(AddEntry(acc, Head(es)), Tail(es))

RECURSIVE msgcat_entries(_)
msgcat_entries(cats) ==
    IF cats = <<>> THEN <<>>
    ELSE AddEntries(msgcat_entries(SubSeq(cats, 1, Len(cats) - 1)),
                    cats[Len(cats)].entries)

\* msgcat over the catalogs of the sources, in order; it marks the
\* metadata as fuzzy (line 90)
msgcat(cats) == Catalog(TRUE, msgcat_entries(cats))

\* the catalogs msgcat is given: the files named on its command line
Contents(directory, names) == [k \in 1..Len(names) |-> directory[names[k]]]

Command(tool, cwd) == [tool |-> tool, cwd |-> cwd]

----------------------------------------------------------------------------
(* Generate.run, merge_files and merge.                                    *)

CurList == IF phase = "langs" THEN langs ELSE cfg.dummy_locales

locale == CurList[i]

group == cfg.generate_merge[g]

target == group.target

sources == group.sources

\* the argument run() hands to merge_files, lines 134 and 137
fail_if_missing == IF phase = "langs" THEN args.strict ELSE FALSE

\* a plausible slip: only the first file is looked for
validate_files_first(directory, files_to_merge) ==
    directory[files_to_merge[1]].kind # "absent"

\* lines 107-110: TRUE when no exception is raised
validate_files(directory, files_to_merge) ==
    \A k \in 1..Len(files_to_merge) : directory[files_to_merge[k]].kind # "absent"

\* a plausible slip: --rtl tested before --ltr
select_langs_rtl(a, c) ==
    IF a.rtl THEN c.rtl_langs
    ELSE IF a.ltr THEN c.ltr_langs
    ELSE c.translated_locales

\* lines 126-131
select_langs(a, c) ==
    IF a.ltr THEN c.ltr_langs
    ELSE IF a.rtl THEN c.rtl_langs
    ELSE c.translated_locales

Pos(p, ph, ii, gg, entered) ==
    [pc |-> p, phase |-> ph, i |-> ii, g |-> gg, entered |-> entered]

\* line 139: both loops are over
ToCompile == Pos("compile", "dummy", 1, 1, FALSE)

\* line 136: the loop over the dummy locales begins
EnterDummy ==
    IF cfg.dummy_locales # <<>> /\ cfg.generate_merge # <<>>
    THEN Pos("validate", "dummy", 1, 1, TRUE)
    ELSE ToCompile

\* line 133: the loop over the selected locales begins
EnterLangs(ls) ==
    IF ls # <<>> /\ cfg.generate_merge # <<>>
    THEN Pos("validate", "langs", 1, 1, TRUE)
    ELSE EnterDummy

\* a plausible slip: the compile step right after the selected locales
AfterReturn_nodummy ==
    IF g < Len(cfg.generate_merge) THEN Pos("validate", phase, i, g + 1, FALSE)
    ELSE IF i < Len(CurList) THEN Pos("validate", phase, i + 1, 1, TRUE)
    ELSE ToCompile

\* where the run goes on when the current merge() returns: the next group
\* of the locale (line 67), the next locale (133, 136), the dummy locales
\* or the compile step
AfterReturn ==
    IF g < Len(cfg.generate_merge) THEN Pos("validate", phase, i, g + 1, FALSE)
    ELSE IF i < Len(CurList) THEN Pos("validate", phase, i + 1, 1, TRUE)
    ELSE IF phase = "langs" THEN EnterDummy
    ELSE ToCompile

\* move to position p; entering a locale is a call of merge_files
Goto(p, ls) ==
    /\ pc' = p.pc
    /\ phase' = p.phase
    /\ i' = p.i
    /\ g' = p.g
    /\ visited' =
         IF p.entered
         THEN Append(visited,
                     << (IF p.phase = "langs" THEN ls
                         ELSE cfg.dummy_locales)[p.i],
                        IF p.phase = "langs" THEN args.strict ELSE FALSE >>)
         ELSE visited

\* a plausible slip: the exception is caught and the loops go on
Raise_swallow(what) ==
    /\ failure' = what
    /\ Goto(AfterReturn, langs)

\* an exception propagates out of run(): nothing is left to do
Raise(what) ==
    /\ pc' = "failed"
    /\ failure' = what
    /\ UNCHANGED <<phase, i, g, visited>>

Init ==
    /\ args \in [strict : BOOLEAN, ltr : BOOLEAN, rtl : BOOLEAN]
    /\ cfg \in Configurations
    /\ \E missing \in SUBSET (Locales \X SourceFiles(cfg)), stale \in BOOLEAN :
          /\ Cardinality(missing) <= MaxMissing
          /\ fs = InitialFs(cfg, missing, stale)
    /\ fs0 = fs
    /\ pc = "start"
    /\ phase = "langs"
    /\ langs = <<>>
    /\ i = 1
    /\ g = 1
    /\ seen = [f \in Files |-> Absent]
    /\ executed = <<>>
    /\ returned = 0
    /\ visited = <<>>
    /\ skipped = <<>>
    /\ failure = "none"
    /\ po = Absent
    /\ cleaned = Absent

\* run, lines 126-133: select the locales and enter the first loop
run_start ==
    /\ pc = "start"
    /\ langs' = select_langs(args, cfg)
    /\ Goto(EnterLangs(langs'), langs')
    /\ UNCHANGED <<args, cfg, fs, fs0, seen, executed, returned, skipped,
                   failure, po, cleaned>>

\* merge, lines 41-48, the sources are all there
merge_validate_ok ==
    /\ pc = "validate"
    /\ validate_files(fs[locale], sources)
    /\ pc' = "msgcat"
    /\ UNCHANGED <<runvars, po, cleaned>>

\* a plausible slip: the silent return leaves the loop over the groups
merge_validate_skip_locale ==
    /\ pc = "validate"
    /\ ~validate_files(fs[locale], sources)
    /\ ~fail_if_missing
    /\ skipped' = Append(skipped, <<locale, target>>)
    /\ returned' = returned + 1
    /\ Goto(IF i < Len(CurList) THEN Pos("validate", phase, i + 1, 1, TRUE)
            ELSE IF phase = "langs" THEN EnterDummy
            ELSE ToCompile, langs)
    /\ UNCHANGED <<args, cfg, fs, fs0, langs, seen, executed, failure,
                   po, cleaned>>

\* merge, lines 45-47: a source is missing and fail_if_missing is false
merge_validate_skip ==
    /\ pc = "validate"
    /\ ~validate_files(fs[locale], sources)
    /\ ~fail_if_missing
    /\ skipped' = Append(skipped, <<locale, target>>)
    /\ returned' = returned + 1
    /\ Goto(AfterReturn, langs)
    /\ UNCHANGED <<args, cfg, fs, fs0, langs, seen, executed, failure,
                   po, cleaned>>

\* merge, line 48: a source is missing and fail_if_missing is true
merge_validate_raise ==
    /\ pc = "validate"
    /\ ~validate_files(fs[locale], sources)
    /\ fail_if_missing
    /\ Raise("missing")
    /\ UNCHANGED <<args, cfg, fs, fs0, langs, seen, executed, returned,
                   skipped, po, cleaned>>

\* a plausible slip: msgcat -o target, no temporary file
merge_msgcat_direct ==
    /\ pc = "msgcat"
    /\ seen' = fs[locale]
    /\ executed' = Append(executed, Command("msgcat", locale))
    /\ fs' = [fs EXCEPT ![locale][target] = msgcat(Contents(seen', sources)),
                        ![locale][MERGED] = msgcat(Contents(seen', sources))]
    /\ pc' = "clean"
    /\ UNCHANGED <<args, cfg, fs0, phase, langs, i, g, returned, visited,
                   skipped, failure, po, cleaned>>

\* merge, lines 51-52: msgcat -o merged.po sources, in the locale directory
merge_msgcat_ok ==
    /\ pc = "msgcat"
    /\ seen' = fs[locale]
    /\ executed' = Append(executed, Command("msgcat", locale))
    /\ fs' = [fs EXCEPT ![locale][MERGED] = msgcat(Contents(seen', sources))]
    /\ pc' = "clean"
    /\ UNCHANGED <<args, cfg, fs0, phase, langs, i, g, returned, visited,
                   skipped, failure, po, cleaned>>

\* merge, line 52: msgcat exits non-zero; merged.po is as it was or
\* half written
merge_msgcat_fail ==
    /\ pc = "msgcat"
    /\ seen' = fs[locale]
    /\ executed' = Append(executed, Command("msgcat", locale))
    /\ \E left \in {fs[locale][MERGED], Partial} :
          fs' = [fs EXCEPT ![locale][MERGED] = left]
    /\ Raise("msgcat")
    /\ UNCHANGED <<args, cfg, fs0, langs, returned, skipped, po, cleaned>>

\* a plausible slip: the merged file is renamed as msgcat wrote it
merge_clean_none ==
    /\ pc = "clean"
    /\ pc' = "rename"
    /\ UNCHANGED <<runvars, po, cleaned>>

\* merge, lines 55-56: clean_pofile(merged.po)
merge_clean_ok ==
    /\ pc = "clean"
    /\ fs' = [fs EXCEPT ![locale][MERGED] = clean_pofile(@)]
    /\ pc' = "rename"
    /\ UNCHANGED <<args, cfg, fs0, phase, langs, i, g, seen, executed,
                   returned, visited, skipped, failure, po, cleaned>>

\* merge, line 56: pofile() or save() raises; merged.po is as msgcat
\* wrote it or half written
merge_clean_fail ==
    /\ pc = "clean"
    /\ \E left \in {fs[locale][MERGED], Partial} :
          fs' = [fs EXCEPT ![locale][MERGED] = left]
    /\ Raise("clean")
    /\ UNCHANGED <<args, cfg, fs0, langs, seen, executed, returned, skipped,
                   po, cleaned>>

\* a plausible slip: the file is copied and the temporary file stays
rename_copy(directory, src, dst) ==
    [directory EXCEPT ![dst] = directory[src]]

\* os.rename(src, dst) within one directory: nothing happens when both
\* name the same file
rename(directory, src, dst) ==
    IF src = dst THEN directory
    ELSE [directory EXCEPT ![dst] = directory[src], ![src] = Absent]

\* merge, lines 59-60, and the return of merge
merge_rename ==
    /\ pc = "rename"
    /\ fs' = [fs EXCEPT ![locale] = rename(@, MERGED, target)]
    /\ returned' = returned + 1
    /\ Goto(AfterReturn, langs)
    /\ UNCHANGED <<args, cfg, fs0, langs, seen, executed, skipped, failure,
                   po, cleaned>>

\* run, lines 139-144: django-admin.py compilemessages in BASE_DIR
run_compile_ok ==
    /\ pc = "compile"
    /\ executed' = Append(executed, Command("compilemessages", BASE_DIR))
    /\ pc' = "done"
    /\ UNCHANGED <<args, cfg, fs, fs0, phase, langs, i, g, seen, returned,
                   visited, skipped, failure, po, cleaned>>

\* run, line 144: the compile tool exits non-zero
run_compile_fail ==
    /\ pc = "compile"
    /\ executed' = Append(executed, Command("compilemessages", BASE_DIR))
    /\ Raise("compile")
    /\ UNCHANGED <<args, cfg, fs, fs0, langs, seen, returned, skipped,
                   po, cleaned>>

Next ==
    \/ run_start
    \/ merge_validate_ok
    \/ merge_validate_skip
    \/ merge_validate_raise
    \/ merge_msgcat_ok
    \/ merge_msgcat_fail
    \/ merge_clean_ok
    \/ merge_clean_fail
    \/ merge_rename
    \/ run_compile_ok
    \/ run_compile_fail

Spec == Init /\ [][Next]_vars

----------------------------------------------------------------------------
(* clean_pofile on its own, over every catalog of the bounded family.      *)

InitClean ==
    /\ po \in Catalogs
    /\ cleaned = Absent
    /\ pc = "pofile"
    /\ args = [strict |-> FALSE, ltr |-> FALSE, rtl |-> FALSE]
    /\ cfg \in { c \in Configurations : c.generate_merge = GroupsDefault
                                          /\ Len(c.translated_locales) = 2 }
    /\ fs = InitialFs(cfg, {}, FALSE)
    /\ fs0 = fs
    /\ phase = "langs"
    /\ langs = <<>>
    /\ i = 1
    /\ g = 1
    /\ seen = [f \in Files |-> Absent]
    /\ executed = <<>>
    /\ returned = 0
    /\ visited = <<>>
    /\ skipped = <<>>
    /\ failure = "none"

\* clean_pofile(path), lines 89-97
clean_pofile_run ==
    /\ pc = "pofile"
    /\ cleaned' = clean_pofile(po)
    /\ pc' = "saved"
    /\ UNCHANGED <<runvars, po>>

NextClean == clean_pofile_run

SpecClean == InitClean /\ [][NextClean]_vars

----------------------------------------------------------------------------
(* Vocabulary of the properties.                                           *)

MergePcs == {"validate", "msgcat", "clean", "rename"}

CompileRuns ==
    Cardinality({ k \in 1..Len(executed) : executed[k].tool = "compilemessages" })

MsgcatRuns ==
    Cardinality({ k \in 1..Len(executed) : executed[k].tool = "msgcat" })

\* the merge() calls of a whole run: every group of every selected locale
\* and of every dummy locale
TotalMerges == (Len(langs) + Len(cfg.dummy_locales)) * Len(cfg.generate_merge)

\* the merge() calls that come before the current one
CallsBefore ==
    (IF phase = "dummy" THEN Len(langs) * Len(cfg.generate_merge) ELSE 0)
    + (i - 1) * Len(cfg.generate_merge) + (g - 1)

\* the flag is some text followed by -format
HasFormatSuffix(f) ==
    \E n \in 0..Len(f) : f = SubSeq(f, 1, n) \o FormatSuffix

\* a catalog file as the normalizer leaves one
IsNormalized(file) ==
    /\ file.kind = "catalog"
    /\ ~file.fuzzy
    /\ \A k \in 1..Len(file.entries) :
          /\ \A n \in 1..Len(file.entries[k].occurrences) :
                file.entries[k].occurrences[n][2] = NoLine
          /\ \A n \in 1..Len(file.entries[k].flags) :
                ~HasFormatSuffix(file.entries[k].flags[n])

IsPrefix(a, b) == Len(a) <= Len(b) /\ a = SubSeq(b, 1, Len(a))

SomeSourceAbsent(directory, names) ==
    \E k \in 1..Len(names) : directory[names[k]] = Absent

----------------------------------------------------------------------------
(* C1: a run that ends without a fatal failure has invoked the compile     *)
(* tool exactly once, in BASE_DIR, and as the last command; whenever the   *)
(* compile tool has been invoked every merge call of every selected and    *)
(* every dummy locale has returned; a run that a merge step ended has      *)
(* never invoked the compile tool.                                         *)
C1_CompileOnceAfterAllMerges ==
    /\ pc = "done" =>
          /\ CompileRuns = 1
          /\ executed[Len(executed)] = Command("compilemessages", BASE_DIR)
    /\ \A k \in 1..Len(executed) :
          executed[k].tool = "compilemessages" =>
              /\ k = Len(executed)
              /\ executed[k].cwd = BASE_DIR
              /\ returned = TotalMerges
              /\ Len(visited) = Len(langs) + Len(cfg.dummy_locales)
    /\ failure \in {"missing", "msgcat", "clean"} => CompileRuns = 0

C1_Witness ==
    /\ pc = "done"
    /\ CompileRuns = 1
    /\ MsgcatRuns = TotalMerges
    /\ MsgcatRuns > 2

(* C2: a merge call that finds a source absent raises when fail_if_missing *)
(* is true and returns normally when it is false; either way no external   *)
(* command is run and no file of any directory changes.                    *)
C2_MissingSource ==
    [][ (pc = "validate" /\ SomeSourceAbsent(fs[locale], sources)) =>
           /\ fail_if_missing => (pc' = "failed" /\ failure' = "missing")
           /\ ~fail_if_missing =>
                 /\ pc' \in {"validate", "compile"}
                 /\ failure' = "none"
                 /\ returned' = returned + 1
           /\ executed' = executed
           /\ fs' = fs ]_vars

C2_Witness ==
    /\ pc = "failed"
    /\ failure = "missing"
    /\ SomeSourceAbsent(fs[locale], sources)
    /\ fs[locale][target] = fs0[locale][target]
    /\ fs[locale][target] # Absent
    /\ MsgcatRuns > 0

(* C3, as claimed: the rename that ends a successful merge call leaves the *)
(* target holding the cleaned output of msgcat over the sources, and no    *)
(* merged.po in the directory, whatever the target is named.               *)
C3_AsClaimed ==
    [][ pc = "rename" =>
           /\ fs'[locale][target] = clean_pofile(msgcat(Contents(seen, sources)))
           /\ fs'[locale][target].kind = "catalog"
           /\ fs'[locale][MERGED] = Absent ]_vars

(* C3, amended: the same, but merged.po is gone only when the target is    *)
(* not itself named merged.po.                                             *)
C3_SuccessfulMerge ==
    [][ pc = "rename" =>
           /\ fs'[locale][target] = clean_pofile(msgcat(Contents(seen, sources)))
           /\ fs'[locale][target].kind = "catalog"
           /\ target # MERGED => fs'[locale][MERGED] = Absent ]_vars

C3_Witness ==
    \E l \in Locales :
        /\ fs0[l]["djangojs.po"] # Absent
        /\ fs[l]["djangojs.po"] # fs0[l]["djangojs.po"]
        /\ IsNormalized(fs[l]["djangojs.po"])
        /\ Len(fs[l]["djangojs.po"].entries) = 2
        /\ fs0[l][MERGED] # Absent
        /\ fs[l][MERGED] = Absent

(* C4: the catalog clean_pofile saves has the entries of the catalog it    *)
(* read, in order, each with the same filenames and no line number in its  *)
(* occurrences, with its flags that do not end in -format and no other,    *)
(* and with msgid and msgstr as they were; its header is not fuzzy.        *)
C4_CleanPofile ==
    pc = "saved" =>
       /\ cleaned.kind = "catalog"
       /\ cleaned.fuzzy = FALSE
       /\ Len(cleaned.entries) = Len(po.entries)
       /\ \A k \in 1..Len(po.entries) :
             LET before == po.entries[k]
                 after == cleaned.entries[k]
             IN  /\ Len(after.occurrences) = Len(before.occurrences)
                 /\ \A n \in 1..Len(before.occurrences) :
                       after.occurrences[n] = <<before.occurrences[n][1], NoLine>>
                 /\ \A n \in 1..Len(after.flags) : ~HasFormatSuffix(after.flags[n])
                 /\ after.flags =
                       SelectSeq(before.flags, LAMBDA f : ~HasFormatSuffix(f))
                 /\ after.msgid = before.msgid
                 /\ after.msgstr = before.msgstr

C4_Witness ==
    /\ pc = "saved"
    /\ po.fuzzy
    /\ \E k \in 1..Len(po.entries) :
          /\ Len(po.entries[k].occurrences) = 2
          /\ po.entries[k].occurrences[2][2] # NoLine
          /\ Len(po.entries[k].flags) = 3
          /\ Len(cleaned.entries[k].flags) = 2

(* C5, as claimed: no run is ever ended by a source missing from the       *)
(* directory of a dummy locale.                                            *)
C5_AsClaimed ==
    ~ ( /\ pc = "failed"
        /\ failure = "missing"
        /\ locale \in Range(cfg.dummy_locales) )

(* C6: once an exception has been raised nothing happens any more: no      *)
(* file changes, no command is run, no merge call is made or returns; a    *)
(* failing merge step ends the run with the compile tool never invoked.    *)
C6_FailStop ==
    [][ /\ failure # "none" =>
              UNCHANGED <<fs, executed, returned, visited, skipped, pc,
                          phase, i, g, failure>>
        /\ failure' \in {"missing", "msgcat", "clean"} =>
              /\ pc' = "failed"
              /\ \A k \in 1..Len(executed') :
                    executed'[k].tool # "compilemessages" ]_vars

C6_Witness ==
    /\ pc = "failed"
    /\ failure = "msgcat"
    /\ phase = "langs"
    /\ i < Len(langs)
    /\ g < Len(cfg.generate_merge)
    /\ returned = CallsBefore
    /\ CompileRuns = 0

(* C7: the steps of a merge call come in the order validate, msgcat,       *)
(* clean, rename; a file other than merged.po changes only in the rename   *)
(* step, where the target takes the content of merged.po, and at that      *)
(* step merged.po is the cleaned msgcat output over the contents the       *)
(* sources had when the call began, which they still have.                 *)
C7_StepOrder ==
    [][ /\ pc' = "msgcat" => pc = "validate"
        /\ pc' = "clean" => pc = "msgcat"
        /\ pc' = "rename" => pc = "clean"
        /\ pc = "validate" => seen' = seen
        /\ pc = "msgcat" => seen' = fs[locale]
        /\ \A l \in Locales : \A f \in Files \ {MERGED} :
              fs'[l][f] # fs[l][f] =>
                  /\ pc = "rename"
                  /\ l = locale
                  /\ f = target
                  /\ fs'[l][f] = fs[l][MERGED]
        /\ pc = "rename" =>
              /\ fs[locale][MERGED] =
                    clean_pofile(msgcat(Contents(seen, sources)))
              /\ \A k \in 1..Len(sources) :
                    sources[k] # MERGED =>
                        fs[locale][sources[k]] = seen[sources[k]] ]_vars

C7_Witness ==
    \E l \in Locales :
        /\ fs0[l]["djangojs.po"] = Orig("djangojs.po")
        /\ fs[l]["djangojs.po"] =
              clean_pofile(msgcat(<<fs0[l]["djangojs-partial.po"],
                                    fs0[l]["djangojs.po"]>>))

(* C8: when a merge call has returned silently the run goes on with the    *)
(* very next merge call: at every merge step the calls that returned are   *)
(* exactly those before the current one; every silent return was for a     *)
(* group with a source absent; and a run that ends has made every merge    *)
(* call, run msgcat for each call that was not skipped and run the         *)
(* compile tool once.                                                      *)
C8_SkipPerGroup ==
    skipped # <<>> =>
       /\ pc \in MergePcs => returned = CallsBefore
       /\ \A k \in 1..Len(skipped) :
             \E n \in 1..Len(cfg.generate_merge) :
                 /\ cfg.generate_merge[n].target = skipped[k][2]
                 /\ SomeSourceAbsent(fs[skipped[k][1]],
                                     cfg.generate_merge[n].sources)
       /\ pc = "done" =>
             /\ returned = TotalMerges
             /\ MsgcatRuns = TotalMerges - Len(skipped)
             /\ CompileRuns = 1

C8_Witness ==
    /\ pc = "done"
    /\ skipped = << <<langs[1], "django.po">> >>
    /\ fs[langs[1]]["django.po"] = fs0[langs[1]]["django.po"]
    /\ IsNormalized(fs[langs[1]]["djangojs.po"])
    /\ MsgcatRuns = TotalMerges - 1
    /\ CompileRuns = 1

(* C9, as claimed: in every state every target file of every locale holds  *)
(* what it held before the run or a normalized catalog, and after a        *)
(* failure of msgcat or of the normalizer the target of the group is as    *)
(* the merge call found it.                                                *)
C9_AsClaimed ==
    /\ \A l \in Locales : \A n \in 1..Len(cfg.generate_merge) :
          LET t == cfg.generate_merge[n].target
          IN  fs[l][t] = fs0[l][t] \/ IsNormalized(fs[l][t])
    /\ failure \in {"msgcat", "clean"} => fs[locale][target] = seen[target]

\* the subset by first-matching-flag precedence, and the merge_files calls
\* it makes for
C10_Selected ==
    CASE args.ltr /\ args.rtl -> cfg.ltr_langs
      [] args.ltr /\ ~args.rtl -> cfg.ltr_langs
      [] ~args.ltr /\ args.rtl -> cfg.rtl_langs
      [] OTHER -> cfg.translated_locales

C10_Calls ==
    [k \in 1..Len(C10_Selected) |-> <<C10_Selected[k], args.strict>>]
    \o [k \in 1..Len(cfg.dummy_locales) |-> <<cfg.dummy_locales[k], FALSE>>]

(* C9, amended: the same for every target that is not itself named         *)
(* merged.po, the file msgcat writes to.                                   *)
C9_TargetsIntact ==
    /\ \A l \in Locales : \A n \in 1..Len(cfg.generate_merge) :
          LET t == cfg.generate_merge[n].target
          IN  t # MERGED => (fs[l][t] = fs0[l][t] \/ IsNormalized(fs[l][t]))
    /\ (failure \in {"msgcat", "clean"} /\ target # MERGED) =>
          fs[locale][target] = seen[target]

C9_Witness ==
    /\ pc = "failed"
    /\ failure = "clean"
    /\ target = "djangojs.po"
    /\ fs[locale][target] = fs0[locale][target]
    /\ fs[locale][target] # Absent
    /\ fs[locale][MERGED].kind = "partial"
    /\ IsNormalized(fs[locale]["django.po"])

(* C10: the locales merged with the strict flag are ltr_langs whenever     *)
(* --ltr is set, with or without --rtl, rtl_langs when only --rtl is set   *)
(* and translated_locales when neither is; merge_files is called for       *)
(* them in order with the strict flag and then for the dummy locales with  *)
(* fail_if_missing false, and for no other locale.                         *)
C10_LocaleSubset ==
    pc \in MergePcs \cup {"compile", "done", "failed"} =>
       /\ langs = C10_Selected
       /\ IsPrefix(visited, C10_Calls)
       /\ pc \in {"compile", "done"} => visited = C10_Calls
       /\ (pc \in MergePcs /\ phase = "langs") => locale \in Range(C10_Selected)

C10_Witness ==
    /\ pc = "done"
    /\ args.ltr
    /\ args.rtl
    /\ args.strict
    /\ visited = << <<"fr", TRUE>>, <<"eo", FALSE>> >>

====
